---- MODULE Spec2Model ----
(***************************************************************************)
(* Model of webapp_downloader/static/script.js: the click handler of the   *)
(* download button (session initiation), the interval timer it installs,   *)
(* pollProgress (one poll cycle) and handleError.  The backend behind      *)
(* POST /download and GET /progress/<id> is a black box: its answers are   *)
(* inputs drawn from small sets.  The event loop is single threaded, so    *)
(* every action is the synchronous stretch of code between two awaits.     *)
(***************************************************************************)
EXTENDS Integers, Sequences, FiniteSets, TLC

\* ---------------------------------------------------------------- bounds
MaxSessions == 3    \* submits with a non-empty URL in one run
MaxPolls    == 3    \* poll requests issued in one run
MaxExtraPolls == 1  \* poll requests a scripted run issues beyond its script
MaxUrlLen   == 1    \* characters typed into the URL field

\* ------------------------------------------------------------- constants
Undefined      == 0     \* the JS value undefined of a numeric handle or id
CompleteStatus == "Download Complete!"

\* --------------------------------------------------------------- state
VARIABLES
    btnDisabled,    \* downloadBtn.disabled
    btnText,        \* downloadBtn.textContent
    barHeight,      \* progressBar.style.height
    barComplete,    \* 'complete' in progressBar.classList
    progressText,   \* progressText.textContent
    statusBox,      \* [content, className] of statusBox
    pollInterval,   \* the global timer handle (Undefined before the first one)
    timers,         \* the interval timers the runtime still fires
    nextTimer,      \* the handle the next setInterval returns
    initReqs,       \* POST /download requests in flight
    pollReqs,       \* GET /progress/<id> requests in flight
    nSubmits,       \* sessions started so far (submits that passed validation)
    nPolls,         \* poll requests issued so far
    last,           \* history: the handler that ran last and its input
    terminated,     \* history: sessions a poll response of which was terminal
    overlap,        \* history: a tick fired while a poll was still in flight
    shown,          \* history: per session, the latest-issued poll request
                    \* whose response has been processed
    handoffs,       \* Strategy A: prepared sessions waiting for their handoff
    streamReqs      \* Strategy A: download ids handed to GET /stream/<id>

vars == <<btnDisabled, btnText, barHeight, barComplete, progressText, statusBox,
          pollInterval, timers, nextTimer, initReqs, pollReqs, nSubmits, nPolls,
          last, terminated, overlap, shown, handoffs, streamReqs>>

ui == <<btnDisabled, btnText, barHeight, barComplete, progressText, statusBox>>

\* --------------------------------------------------------------- inputs
\* What the user can have typed: every string of at most MaxUrlLen characters
\* over a letter and two kinds of white space.
Whitespace == {" ", "\t"}
Chars == Whitespace \cup {"a"}
Urls == UNION {[1..n -> Chars] : n \in 0..MaxUrlLen}

\* String.prototype.trim: drop leading and trailing white space.
RECURSIVE TrimLeft(_)
TrimLeft(s) == IF s # <<>> /\ Head(s) \in Whitespace THEN TrimLeft(Tail(s)) ELSE s
RECURSIVE TrimRight(_)
TrimRight(s) ==
    IF s # <<>> /\ s[Len(s)] \in Whitespace
    THEN TrimRight(SubSeq(s, 1, Len(s) - 1)) ELSE s
\* Mutant: the handler forgets to trim.
TrimForgotten(s) == s
Trim(s) == TrimRight(TrimLeft(s))

\* Outcomes of `await fetch('/download')` followed by `await response.json()`.
\* kind "throw": fetch or json() rejected with an Error carrying `message`.
\* kind "json": the body parsed; `error` is data.error ("" when the field is
\* absent), `hasId` tells whether the body carries a download_id.
InitResults ==
    { [kind |-> "json",  http |-> 200, error |-> "", hasId |-> TRUE, message |-> ""],
      [kind |-> "json",  http |-> 200, error |-> "Unsupported URL", hasId |-> FALSE, message |-> ""],
      [kind |-> "json",  http |-> 400, error |-> "Invalid URL", hasId |-> FALSE, message |-> ""],
      [kind |-> "json",  http |-> 500, error |-> "", hasId |-> FALSE, message |-> ""],
      [kind |-> "throw", http |-> 0,   error |-> "", hasId |-> FALSE, message |-> "Failed to fetch"] }

\* Outcomes of `await fetch('/progress/<id>')` followed by `await res.json()`.
\* `error` is TRUE exactly when data.error is the boolean true; a field the
\* body does not carry reads as "undefined".
Json(http, error, progress, status, file) ==
    [kind |-> "json", http |-> http, error |-> error, progress |-> progress,
     status |-> status, file_name |-> file]
PollThrow ==
    [kind |-> "throw", http |-> 0, error |-> FALSE, progress |-> 0,
     status |-> "undefined", file_name |-> "undefined"]
PollResults ==
    { Json(200, FALSE, 10,  "Downloading", "undefined"),
      Json(200, FALSE, 55,  "Downloading", "undefined"),
      Json(200, FALSE, 100, "Finalizing", "v.mp4"),
      Json(200, FALSE, 100, CompleteStatus, "v.mp4"),
      Json(200, TRUE,  0,   "Invalid URL", "undefined"),
      Json(200, TRUE,  55,  "undefined", "undefined"),
      Json(500, FALSE, 55,  "Downloading", "undefined"),
      PollThrow }

\* ------------------------------------------------------------ rendering
Percent(p) == <<p, "%">>                  \* `${percent}%`
Text(msg) == <<msg>>                      \* element.textContent = msg
\* Mutant: the banner reads a key the response does not carry.
SuccessHtmlWrongKey(file) ==
    <<"Success! Saved to downloads as:<br><strong>", "undefined", "</strong>">>
SuccessHtml(file) ==                      \* the innerHTML of the success banner
    <<"Success! Saved to downloads as:<br><strong>", file, "</strong>">>
Truthy(s) == s \notin {"", "undefined"}
\* data.status || data.error, as the text handleError writes
StatusOrError(data) ==
    IF Truthy(data.status) THEN data.status
    ELSE IF data.error THEN "true" ELSE "undefined"

\* Mutant: the previous timer is left running.
ClearIntervalForgotten(handle) == timers
\* clearInterval(handle): the runtime stops firing the timer with that handle.
ClearInterval(handle) == {t \in timers : t.id # handle}

\* The history record of a handler run: which handler, for which session,
\* on which input, the timers its clearInterval call stopped, and the number
\* of the poll request it sent or received the answer of (0 when none).
NoInput == [kind |-> "none"]
Ran(op, sid, input, cleared, n) ==
    [op |-> op, sid |-> sid, input |-> input, cleared |-> cleared, n |-> n]

\* --------------------------------------------------------------- Init
Init ==
    /\ btnDisabled = FALSE
    /\ btnText = "Download"
    /\ barHeight = Percent(0)
    /\ barComplete = FALSE
    /\ progressText = Percent(0)
    /\ statusBox = [content |-> Text(""), className |-> "status-box"]
    /\ pollInterval = Undefined
    /\ timers = {}
    /\ nextTimer = 1
    /\ initReqs = {}
    /\ pollReqs = {}
    /\ nSubmits = 0
    /\ nPolls = 0
    /\ last = Ran("start", 0, NoInput, {}, 0)
    /\ terminated = {}
    /\ overlap = FALSE
    /\ shown = [s \in 1..MaxSessions |-> 0]
    /\ handoffs = {}
    /\ streamReqs = {}

\* ------------------------------------------------------------ handlers
\* Mutant: the error path forgets to enable the button again.
HandleErrorKeepsDisabled(msg) ==
    /\ statusBox' = [content |-> Text(msg), className |-> "status-box error"]
    /\ btnText' = "Download"
    /\ UNCHANGED btnDisabled

\* handleError(msg)
HandleError(msg) ==
    /\ statusBox' = [content |-> Text(msg), className |-> "status-box error"]
    /\ btnText' = "Download"
    /\ btnDisabled' = FALSE

\* Click with an empty or white-space-only URL: lines 10-15.
ClickEmpty(raw) ==
    /\ ~btnDisabled                 \* a disabled button dispatches no click
    /\ Trim(raw) = <<>>
    /\ statusBox' = [content |-> Text("Please enter a valid URL."),
                     className |-> "status-box error"]
    /\ last' = Ran("clickEmpty", 0, [kind |-> "url", url |-> raw], {}, 0)
    /\ UNCHANGED <<btnDisabled, btnText, barHeight, barComplete, progressText,
                   pollInterval, timers, nextTimer, initReqs, pollReqs,
                   nSubmits, nPolls, terminated, overlap, shown,
                   handoffs, streamReqs>>

\* Mutant: the reset leaves the completion marker of the previous session.
ClickSubmitKeepsMarker(raw) ==
    /\ ~btnDisabled
    /\ Trim(raw) # <<>>
    /\ nSubmits < MaxSessions
    /\ btnDisabled' = TRUE
    /\ btnText' = "Downloading..."
    /\ barHeight' = Percent(0)
    /\ progressText' = Percent(0)
    /\ statusBox' = [content |-> Text("Connecting to server..."),
                     className |-> "status-box"]
    /\ nSubmits' = nSubmits + 1
    /\ initReqs' = initReqs \cup {[sid |-> nSubmits + 1, url |-> Trim(raw)]}
    /\ last' = Ran("click", nSubmits + 1, [kind |-> "url", url |-> raw], {}, 0)
    /\ UNCHANGED <<barComplete, pollInterval, timers, nextTimer, pollReqs,
                   nPolls, terminated, overlap, shown,
                   handoffs, streamReqs>>

\* Click with a URL: lines 10-31, up to the first await.
ClickSubmit(raw) ==
    /\ ~btnDisabled
    /\ Trim(raw) # <<>>
    /\ nSubmits < MaxSessions
    /\ btnDisabled' = TRUE
    /\ btnText' = "Downloading..."
    /\ barHeight' = Percent(0)
    /\ barComplete' = FALSE
    /\ progressText' = Percent(0)
    /\ statusBox' = [content |-> Text("Connecting to server..."),
                     className |-> "status-box"]
    /\ nSubmits' = nSubmits + 1
    /\ initReqs' = initReqs \cup {[sid |-> nSubmits + 1, url |-> Trim(raw)]}
    /\ last' = Ran("click", nSubmits + 1, [kind |-> "url", url |-> raw], {}, 0)
    /\ UNCHANGED <<pollInterval, timers, nextTimer, pollReqs, nPolls,
                   terminated, overlap, shown,
                   handoffs, streamReqs>>

\* The initiation request of session req.sid completes with outcome res:
\* lines 33-46.
InitFails(res) == res.kind = "throw" \/ Truthy(res.error)
InitMessage(res) == IF res.kind = "throw" THEN res.message ELSE res.error
\* data.download_id: the backend's id of this session, or undefined
DownloadId(req, res) == IF res.hasId THEN req.sid ELSE Undefined

InitiationCompletes(req, res) ==
    /\ req \in initReqs
    /\ initReqs' = initReqs \ {req}
    /\ IF InitFails(res)
       THEN /\ HandleError(InitMessage(res))
            /\ UNCHANGED <<pollInterval, timers, nextTimer>>
       ELSE /\ timers' = ClearInterval(pollInterval) \cup
                    {[id |-> nextTimer, sid |-> req.sid,
                      downloadId |-> DownloadId(req, res)]}
            /\ pollInterval' = nextTimer
            /\ nextTimer' = nextTimer + 1
            /\ UNCHANGED <<statusBox, btnText, btnDisabled>>
    /\ last' = Ran("init", req.sid, res, timers \ timers', 0)
    /\ UNCHANGED <<barHeight, barComplete, progressText, pollReqs, nSubmits,
                   nPolls, terminated, overlap, shown,
                   handoffs, streamReqs>>

\* The interval timer t fires: pollProgress(downloadId) runs to its first
\* await, which sends the request (lines 42, 49-51).
SendPoll(t) ==
    /\ t \in timers
    /\ nPolls' = nPolls + 1
    /\ pollReqs' = pollReqs \cup
            {[sid |-> t.sid, downloadId |-> t.downloadId, n |-> nPolls + 1]}
    /\ overlap' = (overlap \/ pollReqs # {})
    /\ last' = Ran("tick", t.sid, [kind |-> "timer", id |-> t.id], {}, nPolls + 1)
    /\ UNCHANGED <<ui, pollInterval, timers, nextTimer, initReqs, nSubmits,
                   terminated, shown, handoffs, streamReqs>>

TimerTick(t) == nPolls < MaxPolls /\ SendPoll(t)

\* pollProgress after its awaits: lines 52-77.
\* Mutant: the transport status is not looked at.
PollFailsFlagOnly(data) == data.error = TRUE
PollFails(data) == data.error = TRUE \/ data.http # 200
\* Mutant: completion decided on the number alone.
PollDoneNumberOnly(data) == data.progress >= 100
PollDone(data) == data.progress >= 100 /\ data.status = CompleteStatus

\* Mutant: the exception path leaves the timer running.
PollExceptionKeepsTimer ==
    /\ HandleError("Connection to server lost. Retrying manually req.")
    /\ UNCHANGED <<timers, barHeight, barComplete, progressText>>

\* catch (err): lines 74-77
PollException ==
    /\ timers' = ClearInterval(pollInterval)
    /\ HandleError("Connection to server lost. Retrying manually req.")
    /\ UNCHANGED <<barHeight, barComplete, progressText>>

\* Mutant: the failure path leaves the timer running.
PollErrorKeepsTimer(data) ==
    /\ HandleError(StatusOrError(data))
    /\ UNCHANGED <<timers, barHeight, barComplete, progressText>>

\* data.error === true || res.status !== 200: lines 54-58
PollError(data) ==
    /\ timers' = ClearInterval(pollInterval)
    /\ HandleError(StatusOrError(data))
    /\ UNCHANGED <<barHeight, barComplete, progressText>>

\* Mutant: completion leaves the timer running.
PollRenderKeepsTimer(data) ==
    /\ barHeight' = Percent(data.progress)
    /\ progressText' = Percent(data.progress)
    /\ IF PollDone(data)
       THEN /\ barComplete' = TRUE
            /\ btnText' = "Download"
            /\ btnDisabled' = FALSE
            /\ statusBox' = [content |-> SuccessHtml(data.file_name),
                             className |-> "status-box success"]
            /\ UNCHANGED timers
       ELSE /\ statusBox' = [statusBox EXCEPT !.content = Text(data.status)]
            /\ UNCHANGED <<timers, barComplete, btnText, btnDisabled>>

\* Mutant: completion forgets to enable the button again.
PollRenderKeepsDisabled(data) ==
    /\ barHeight' = Percent(data.progress)
    /\ progressText' = Percent(data.progress)
    /\ IF PollDone(data)
       THEN /\ timers' = ClearInterval(pollInterval)
            /\ barComplete' = TRUE
            /\ btnText' = "Download"
            /\ statusBox' = [content |-> SuccessHtml(data.file_name),
                             className |-> "status-box success"]
            /\ UNCHANGED btnDisabled
       ELSE /\ statusBox' = [statusBox EXCEPT !.content = Text(data.status)]
            /\ UNCHANGED <<timers, barComplete, btnText, btnDisabled>>

\* Mutant: the displayed progress is never lowered.
PollRenderMonotonic(data) ==
    /\ barHeight' = IF data.progress >= barHeight[1] THEN Percent(data.progress)
                    ELSE barHeight
    /\ progressText' = barHeight'
    /\ IF PollDone(data)
       THEN /\ timers' = ClearInterval(pollInterval)
            /\ barComplete' = TRUE
            /\ btnText' = "Download"
            /\ btnDisabled' = FALSE
            /\ statusBox' = [content |-> SuccessHtml(data.file_name),
                             className |-> "status-box success"]
       ELSE /\ statusBox' = [statusBox EXCEPT !.content = Text(data.status)]
            /\ UNCHANGED <<timers, barComplete, btnText, btnDisabled>>

\* Rendering a response that is not a failure: lines 60-73
PollRender(data) ==
    /\ barHeight' = Percent(data.progress)
    /\ progressText' = Percent(data.progress)
    /\ IF PollDone(data)
       THEN /\ timers' = ClearInterval(pollInterval)
            /\ barComplete' = TRUE
            /\ btnText' = "Download"
            /\ btnDisabled' = FALSE
            /\ statusBox' = [content |-> SuccessHtml(data.file_name),
                             className |-> "status-box success"]
       ELSE /\ statusBox' = [statusBox EXCEPT !.content = Text(data.status)]
            /\ UNCHANGED <<timers, barComplete, btnText, btnDisabled>>

\* A poll response is terminal when it stops the session: exception, failure
\* or completion.
PollTerminal(res) == res.kind = "throw" \/ PollFails(res) \/ PollDone(res)

\* Mutant: a sequence guard discards the response of a request issued before
\* one whose response has already been processed.
PollCompletesGuarded(req, res) ==
    /\ req \in pollReqs
    /\ pollReqs' = pollReqs \ {req}
    /\ IF req.n < shown[req.sid]
       THEN UNCHANGED <<ui, timers, terminated>>
       ELSE /\ IF res.kind = "throw" THEN PollException
               ELSE IF PollFails(res) THEN PollError(res)
               ELSE PollRender(res)
            /\ terminated' = IF PollTerminal(res) THEN terminated \cup {req.sid}
                             ELSE terminated
    /\ shown' = [shown EXCEPT ![req.sid] = IF req.n > @ THEN req.n ELSE @]
    /\ last' = Ran("poll", req.sid, res, timers \ timers', req.n)
    /\ UNCHANGED <<pollInterval, nextTimer, initReqs, nSubmits, nPolls, overlap,
                   handoffs, streamReqs>>

PollCompletes(req, res) ==
    /\ req \in pollReqs
    /\ pollReqs' = pollReqs \ {req}
    /\ IF res.kind = "throw" THEN PollException
       ELSE IF PollFails(res) THEN PollError(res)
       ELSE PollRender(res)
    /\ terminated' = IF PollTerminal(res) THEN terminated \cup {req.sid}
                     ELSE terminated
    /\ shown' = [shown EXCEPT ![req.sid] = IF req.n > @ THEN req.n ELSE @]
    /\ last' = Ran("poll", req.sid, res, timers \ timers', req.n)
    /\ UNCHANGED <<pollInterval, nextTimer, initReqs, nSubmits, nPolls, overlap,
                   handoffs, streamReqs>>

\* ------------------------------------------------------- specification
EmptyInput == \E raw \in Urls : ClickEmpty(raw)
Submit == \E raw \in Urls : ClickSubmit(raw)
InitResponse == \E req \in initReqs, res \in InitResults : InitiationCompletes(req, res)
Tick == \E t \in timers : TimerTick(t)
PollResponse == \E req \in pollReqs, res \in PollResults : PollCompletes(req, res)

Next == EmptyInput \/ Submit \/ InitResponse \/ Tick \/ PollResponse

Spec == Init /\ [][Next]_vars

\* A single Strategy B session against a backend that answers the n-th poll
\* request with the n-th entry of Script, and stays at the last entry.
Script ==
    << Json(200, FALSE, 10,  "Downloading", "undefined"),
       Json(200, FALSE, 55,  "Downloading", "undefined"),
       Json(200, FALSE, 100, CompleteStatus, "v.mp4") >>
ScriptAnswer(n) == Script[IF n < Len(Script) THEN n ELSE Len(Script)]
InitOk == [kind |-> "json", http |-> 200, error |-> "", hasId |-> TRUE, message |-> ""]

FirstSubmit == nSubmits = 0 /\ Submit
ScriptedTick ==
    \E t \in timers : nPolls < Len(Script) + MaxExtraPolls /\ SendPoll(t)
ScriptedInitResponse == \E req \in initReqs : InitiationCompletes(req, InitOk)
ScriptedPollResponse == \E req \in pollReqs : PollCompletes(req, ScriptAnswer(req.n))

NextScripted ==
    EmptyInput \/ FirstSubmit \/ ScriptedInitResponse \/ ScriptedTick
        \/ ScriptedPollResponse

SpecScripted == Init /\ [][NextScripted]_vars

\* Strategy A (native handoff), after sections 4.1, 4.2, 4.4 and 6 of the
\* specification: POST /prepare answers with the full metadata, the driver
\* shows the midpoint, hands the transfer to GET /stream/<id> and completes.
MidpointPercent == 50
Metadata(file, quality, segments) ==
    [kind |-> "json", http |-> 200, error |-> "", hasId |-> TRUE, message |-> "",
     file_name |-> file, quality |-> quality, num_segments |-> segments]
PrepareResults ==
    { Metadata("v.mp4", "720p", 4),
      Metadata("w.mp4", "1080p", 8),
      [kind |-> "json",  http |-> 400, error |-> "Invalid URL", hasId |-> FALSE,
       message |-> "", file_name |-> "undefined", quality |-> "undefined",
       num_segments |-> 0],
      [kind |-> "json",  http |-> 500, error |-> "", hasId |-> FALSE,
       message |-> "", file_name |-> "undefined", quality |-> "undefined",
       num_segments |-> 0],
      [kind |-> "json",  http |-> 200, error |-> "Unsupported URL", hasId |-> FALSE,
       message |-> "", file_name |-> "undefined", quality |-> "undefined",
       num_segments |-> 0],
      [kind |-> "throw", http |-> 0, error |-> "", hasId |-> FALSE,
       message |-> "", file_name |-> "undefined",
       quality |-> "undefined", num_segments |-> 0] }
PrepareFails(res) == res.kind = "throw" \/ res.http # 200 \/ Truthy(res.error)
\* InitError.Rejected(message): the structured error if present, else a
\* generic default.
GenericError == "Request failed"
PrepareMessage(res) == IF Truthy(res.error) THEN res.error ELSE GenericError

\* Mutant: the midpoint is skipped.
PrepareCompletesNoMidpoint(req, res) ==
    /\ req \in initReqs
    /\ initReqs' = initReqs \ {req}
    /\ IF PrepareFails(res)
       THEN /\ HandleError(PrepareMessage(res))
            /\ UNCHANGED handoffs
       ELSE /\ handoffs' = handoffs \cup
                    {[sid |-> req.sid, downloadId |-> DownloadId(req, res),
                      file_name |-> res.file_name]}
            /\ UNCHANGED <<statusBox, btnText, btnDisabled>>
    /\ last' = Ran("prepare", req.sid, res, {}, 0)
    /\ UNCHANGED <<barHeight, progressText, barComplete, pollInterval, timers,
                   nextTimer, pollReqs, nSubmits, nPolls, terminated, overlap,
                   shown, streamReqs>>

\* The prepare request of session req.sid completes with outcome res.
PrepareCompletes(req, res) ==
    /\ req \in initReqs
    /\ initReqs' = initReqs \ {req}
    /\ IF PrepareFails(res)
       THEN /\ HandleError(PrepareMessage(res))
            /\ UNCHANGED <<barHeight, progressText, handoffs>>
       ELSE /\ barHeight' = Percent(MidpointPercent)
            /\ progressText' = Percent(MidpointPercent)
            /\ handoffs' = handoffs \cup
                    {[sid |-> req.sid, downloadId |-> DownloadId(req, res),
                      file_name |-> res.file_name]}
            /\ UNCHANGED <<statusBox, btnText, btnDisabled>>
    /\ last' = Ran("prepare", req.sid, res, {}, 0)
    /\ UNCHANGED <<barComplete, pollInterval, timers, nextTimer, pollReqs,
                   nSubmits, nPolls, terminated, overlap, shown, streamReqs>>

\* The handoff of a prepared session: the stream request is dispatched and
\* the session is complete.
Handoff(h) ==
    /\ h \in handoffs
    /\ handoffs' = handoffs \ {h}
    /\ streamReqs' = streamReqs \cup {h.downloadId}
    /\ barHeight' = Percent(100)
    /\ progressText' = Percent(100)
    /\ barComplete' = TRUE
    /\ statusBox' = [content |-> SuccessHtml(h.file_name),
                     className |-> "status-box success"]
    /\ btnText' = "Download"
    /\ btnDisabled' = FALSE
    /\ last' = Ran("handoff", h.sid, [kind |-> "handoff", file_name |-> h.file_name],
                   {}, 0)
    /\ UNCHANGED <<pollInterval, timers, nextTimer, initReqs, pollReqs, nSubmits,
                   nPolls, terminated, overlap, shown>>

PrepareResponse ==
    \E req \in initReqs, res \in PrepareResults : PrepareCompletes(req, res)
HandoffStep == \E h \in handoffs : Handoff(h)

NextStrategyA == EmptyInput \/ Submit \/ PrepareResponse \/ HandoffStep

SpecStrategyA == Init /\ [][NextStrategyA]_vars

\* Progress: the runtime eventually completes every request in flight and
\* fires every active timer, and the backend eventually answers every session
\* with a terminal poll response: once MaxPolls poll requests have been
\* issued every answer is terminal, and no session is started after that.
LiveSubmit == nPolls < MaxPolls /\ Submit
LivePollResponse ==
    \E req \in pollReqs, res \in PollResults :
        /\ nPolls = MaxPolls => PollTerminal(res)
        /\ PollCompletes(req, res)

NextLive == EmptyInput \/ LiveSubmit \/ InitResponse \/ Tick \/ LivePollResponse

SpecLive ==
    /\ Init /\ [][NextLive]_vars
    /\ WF_vars(InitResponse)
    /\ WF_vars(Tick)
    /\ WF_vars(LivePollResponse)

TypeOK ==
    /\ btnDisabled \in BOOLEAN
    /\ pollInterval \in 0..MaxSessions
    /\ nextTimer = pollInterval + 1
    /\ nSubmits \in 0..MaxSessions
    /\ nPolls \in 0..MaxPolls
    /\ terminated \subseteq 1..nSubmits
    /\ \A t \in timers : t.downloadId \in {Undefined, t.sid}

\* ------------------------------------------------------------- claims
\* Steps, recognised by the history record of the handler that ran.
IsInitStep == last'.op = "init"
IsPollStep == last'.op = "poll"

\* C1: at most one polling timer is active in every reachable state, and
\* right after an initiation succeeded the only active timer is the one held
\* in pollInterval, polling the id of the session just initiated.
C1_OneTimer ==
    /\ Cardinality(timers) <= 1
    /\ (last.op = "init" /\ ~InitFails(last.input)) =>
          timers = {[id |-> pollInterval, sid |-> last.sid,
                     downloadId |-> DownloadId([sid |-> last.sid], last.input)]}
\* A second initiation succeeded while the timer of an earlier session was
\* still running, and cancelled it.
C1_Witness ==
    /\ last.op = "init" /\ ~InitFails(last.input)
    /\ \E t \in last.cleared : t.sid # last.sid
    /\ Cardinality(timers) = 1

\* C2: once a newer session has been submitted, the completion of a poll
\* request issued for an earlier session changes neither the displayed
\* progress, nor the status line, nor the completion or error presentation.
C2_StaleIgnored ==
    [][(IsPollStep /\ last'.sid < nSubmits) =>
          UNCHANGED <<barHeight, progressText, barComplete, statusBox>>]_vars

\* C3: a successful poll response with progress 100 and a status other than
\* "Download Complete!" does not end the session: the timers and the action
\* control are left as they are, the status line shows the status text (no
\* success banner, no completion marker), so the timer keeps ticking.
IsFinalizing(res) ==
    /\ res.kind = "json" /\ res.http = 200 /\ res.error # TRUE
    /\ res.progress = 100 /\ res.status # "Download Complete!"
C3_NotTerminal ==
    [][(IsPollStep /\ IsFinalizing(last'.input)) =>
          /\ timers' = timers
          /\ btnDisabled' = btnDisabled
          /\ barComplete' = barComplete
          /\ statusBox' = [content |-> <<last'.input.status>>,
                           className |-> statusBox.className]
          /\ last'.sid \notin terminated' \ terminated]_vars
C3_Witness ==
    /\ last.op = "poll" /\ IsFinalizing(last.input)
    /\ \E t \in timers : t.sid = last.sid
    /\ btnDisabled
    /\ statusBox.className = "status-box"

\* C4: a poll response with progress 100 and status "Download Complete!"
\* (no error flag, transport status 200) leaves, in one step, no timer
\* active, the success banner with the file_name of that response rendered,
\* and the action control enabled.
IsComplete(res) ==
    /\ res.kind = "json" /\ res.http = 200 /\ res.error # TRUE
    /\ res.progress = 100 /\ res.status = "Download Complete!"
C4_Complete ==
    [][(IsPollStep /\ IsComplete(last'.input)) =>
          /\ timers' = {}
          /\ statusBox' =
                [content |-> <<"Success! Saved to downloads as:<br><strong>",
                               last'.input.file_name, "</strong>">>,
                 className |-> "status-box success"]
          /\ barComplete'
          /\ ~btnDisabled']_vars
C4_Witness ==
    /\ last.op = "poll" /\ IsComplete(last.input)
    /\ last.input.file_name = "v.mp4"
    /\ \E t \in last.cleared : t.sid = last.sid
    /\ statusBox.className = "status-box success"
    /\ ~btnDisabled

\* C5 (as stated): against the scripted backend the driver issues exactly 3
\* poll requests, whatever the timing of ticks and responses: never more
\* than 3, and exactly 3 once the completing response has been processed.
C5_ExactlyThreePolls ==
    /\ nPolls <= 3
    /\ 1 \in terminated => nPolls = 3
\* C5 (amended): against the scripted backend, as long as every response was
\* processed before the next tick the driver issues at most 3 poll requests
\* and exactly 3 once the completing response has been processed; in every
\* timing no poll request is issued after the completing response has been
\* processed.
C5_ThreePollsInStep ==
    /\ [](~overlap => (nPolls <= 3 /\ (1 \in terminated => nPolls = 3)))
    /\ [][1 \in terminated => nPolls' = nPolls /\ pollReqs' \subseteq pollReqs]_vars
C5_Witness ==
    /\ ~overlap
    /\ nPolls = 3
    /\ last.op = "poll" /\ IsComplete(last.input)
    /\ pollReqs = {} /\ timers = {}

\* C6: a poll response with error == true or a transport status other than
\* 200 is a terminal failure: no timer is active afterwards, the status line
\* shows the response's status text with error presentation, the action
\* control is enabled and the displayed progress is what it was.
IsFailure(res) == res.kind = "json" /\ (res.error = TRUE \/ res.http # 200)
C6_PollFailure ==
    [][(IsPollStep /\ IsFailure(last'.input)) =>
          /\ timers' = {}
          /\ statusBox'.className = "status-box error"
          /\ (last'.input.status # "undefined" =>
                 statusBox'.content = <<last'.input.status>>)
          /\ ~btnDisabled'
          /\ UNCHANGED <<barHeight, progressText, barComplete>>]_vars
C6_Witness ==
    /\ last.op = "poll" /\ last.input.kind = "json"
    /\ last.input.http # 200 /\ last.input.progress = 55
    /\ \E t \in last.cleared : t.sid = last.sid
    /\ statusBox = [content |-> <<"Downloading">>, className |-> "status-box error"]
    /\ barHeight = <<10, "%">>
    /\ ~btnDisabled

\* C7: when a poll request fails with a transport or parse exception, no
\* timer is active afterwards, the status line shows a message with error
\* presentation and the action control is enabled.
C7_PollException ==
    [][(IsPollStep /\ last'.input.kind = "throw") =>
          /\ timers' = {}
          /\ statusBox'.className = "status-box error"
          /\ statusBox'.content # <<"">>
          /\ ~btnDisabled']_vars
C7_Witness ==
    /\ last.op = "poll" /\ last.input.kind = "throw"
    /\ \E t \in last.cleared : t.sid = last.sid
    /\ statusBox.className = "status-box error"
    /\ ~btnDisabled

\* C8: once a poll response of a session has been processed as terminal, no
\* further poll request is issued for that session, and an initiation
\* request is only ever issued by a submit.
C8_NoPollAfterTerminal ==
    [][/\ \A r \in pollReqs' \ pollReqs : r.sid \notin terminated
       /\ (initReqs' \ initReqs # {} => last'.op = "click")]_vars
\* A session ended by a terminal response, the user submitted again and the
\* timer of the new session has issued a poll.
C8_Witness ==
    /\ last.op = "tick"
    /\ terminated # {}
    /\ last.sid \notin terminated

\* C9: a submit whose URL is empty or white space only issues no request,
\* shows a message with error presentation and leaves the action control,
\* the displayed progress and the timers as they were.
IsBlank(raw) == \A i \in 1..Len(raw) : raw[i] \in {" ", "\t"}
C9_EmptyInput ==
    [][(last'.input.kind = "url" /\ IsBlank(last'.input.url)) =>
          /\ initReqs' = initReqs /\ pollReqs' = pollReqs
          /\ nSubmits' = nSubmits /\ nPolls' = nPolls
          /\ statusBox' = [content |-> <<"Please enter a valid URL.">>,
                           className |-> "status-box error"]
          /\ UNCHANGED <<btnDisabled, barHeight, progressText, barComplete,
                         timers, pollInterval>>]_vars
C9_Witness ==
    /\ last.input.kind = "url" /\ last.input.url = <<"\t">>
    /\ statusBox.className = "status-box error"
    /\ barHeight = <<55, "%">>
    /\ initReqs = {}

\* C10: every failed initiation (a non-success HTTP response, a body with an
\* error field, a transport failure) renders a message with error
\* presentation, enables the action control and schedules no timer.
IsFailedInitiation(res) ==
    \/ res.kind = "throw"
    \/ res.http \notin 200..299
    \/ res.error # ""
C10_InitRejected ==
    [][(IsInitStep /\ IsFailedInitiation(last'.input)) =>
          /\ statusBox'.className = "status-box error"
          /\ ~btnDisabled'
          /\ timers' = timers
          /\ pollInterval' = pollInterval]_vars

\* C11 (as stated): once the initiation request has completed, with success,
\* failure or exception, the action control is enabled.
C11_EnabledOnEveryExit ==
    [][IsInitStep => ~btnDisabled']_vars
\* C11 (amended): when the initiation request completes with an exception or
\* with a body carrying an error, the action control is enabled; when it
\* completes with a body without an error the handler leaves the action
\* control as it is (it stays disabled until a poll response ends the
\* session).
C11_EnabledOnFailedExit ==
    [][IsInitStep =>
          IF last'.input.kind = "throw" \/ last'.input.error # ""
          THEN ~btnDisabled'
          ELSE btnDisabled' = btnDisabled]_vars
C11_Witness ==
    /\ last.op = "init" /\ last.input.kind = "json" /\ last.input.error = ""
    /\ last.input.http = 200
    /\ btnDisabled
    /\ \E t \in timers : t.sid = last.sid

\* C12: every submit with a non-empty URL, whatever earlier sessions left,
\* resets the display in the step that sends the initiation request:
\* progress 0, completion marker removed, neutral status presentation,
\* action control disabled.
C12_ResetOnSubmit ==
    [][(last'.input.kind = "url" /\ ~IsBlank(last'.input.url)) =>
          /\ \E req \in initReqs' \ initReqs : req.sid = nSubmits'
          /\ barHeight' = <<0, "%">> /\ progressText' = <<0, "%">>
          /\ ~barComplete'
          /\ statusBox'.className = "status-box"
          /\ btnDisabled']_vars
\* A submit after an earlier session ended.
C12_Witness ==
    /\ last.op = "click"
    /\ terminated # {}
    /\ ~barComplete /\ barHeight = <<0, "%">>
    /\ statusBox.className = "status-box"
    /\ btnDisabled

\* C13 (as stated): within one session poll responses are rendered in the
\* order in which their requests were issued: a response is never processed
\* after the response of a request the same session issued later.
C13_IssueOrder ==
    [][\A r \in pollReqs \ pollReqs' : r.n > shown[r.sid]]_vars
\* C13 (amended): within one session poll responses are rendered in the
\* order in which they complete: a response that is not a failure sets the
\* displayed progress when it completes, also when the response of a request
\* the session issued later has been rendered before.
IsRendered(res) == res.kind = "json" /\ res.http = 200 /\ res.error # TRUE
C13_CompletionOrder ==
    [][\A r \in pollReqs \ pollReqs' :
          (IsRendered(last'.input) /\ r.n < shown[r.sid]) =>
             /\ barHeight' = <<last'.input.progress, "%">>
             /\ progressText' = <<last'.input.progress, "%">>]_vars
\* The response of the first request is rendered after that of the second.
C13_Witness ==
    /\ last.op = "poll" /\ IsRendered(last.input)
    /\ last.n < shown[last.sid]
    /\ last.input.progress = 10
    /\ barHeight = <<10, "%">>

\* C14 (as stated): every poll response that is not a failure sets the
\* displayed progress and the status line to exactly the progress and the
\* status of that response.
C14_RendersProgressAndStatus ==
    [][(IsPollStep /\ IsRendered(last'.input)) =>
          /\ barHeight' = <<last'.input.progress, "%">>
          /\ progressText' = <<last'.input.progress, "%">>
          /\ statusBox'.content = <<last'.input.status>>]_vars
\* C14 (amended): every poll response that is not a failure sets the
\* displayed progress to exactly the progress of that response, also when it
\* is lower than the value displayed, and the status line to exactly its
\* status, except that a response completing the session (progress 100 and
\* status "Download Complete!") leaves the success banner in the status line.
C14_RendersUnlessComplete ==
    [][(IsPollStep /\ IsRendered(last'.input)) =>
          /\ barHeight' = <<last'.input.progress, "%">>
          /\ progressText' = <<last'.input.progress, "%">>
          /\ IF last'.input.progress = 100
                 /\ last'.input.status = "Download Complete!"
             THEN statusBox'.content =
                    <<"Success! Saved to downloads as:<br><strong>",
                      last'.input.file_name, "</strong>">>
             ELSE statusBox'.content = <<last'.input.status>>]_vars
\* Progress 10 rendered over a display that had reached 100 and completion.
C14_Witness ==
    /\ last.op = "poll" /\ IsRendered(last.input)
    /\ last.input.progress = 10
    /\ barComplete
    /\ barHeight = <<10, "%">> /\ progressText = <<10, "%">>
    /\ statusBox.content = <<"Downloading">>

\* C15: once a terminal poll response of a session has been processed, no
\* later poll response of the same session changes the displayed progress,
\* the status line or the action control.
C15_TerminalIsFinal ==
    [][(IsPollStep /\ last'.sid \in terminated) =>
          UNCHANGED <<barHeight, progressText, barComplete, statusBox,
                      btnDisabled>>]_vars

\* C17: in every reachable state a disabled action control comes with an
\* initiation request in flight or an active polling timer.
C17_DisabledHasPending ==
    btnDisabled => (initReqs # {} \/ timers # {})
C17_Witness ==
    /\ btnDisabled
    /\ initReqs = {} /\ pollReqs = {}
    /\ timers # {}
    /\ terminated # {}

\* C18: in every reachable state, while a polling timer is active or an
\* initiation request is in flight the action control is disabled.
C18_PendingIsDisabled ==
    (timers # {} \/ initReqs # {}) => btnDisabled

\* C19: a polling timer is cancelled only by a terminal poll response of its
\* own session or by the successful initiation of a newer session.
C19_CancelledByOwnSession ==
    [][\A t \in timers \ timers' :
          \/ IsPollStep /\ last'.sid = t.sid
          \/ IsInitStep /\ last'.sid > t.sid]_vars

\* C20: under fair ticks and request completion, with a backend that
\* eventually answers every session with a terminal poll response, after
\* every submit with a non-empty URL the action control is eventually
\* enabled again.
C20_EventuallyEnabled ==
    (last.op = "click" /\ btnDisabled) ~> ~btnDisabled
\* A session went through initiation and polling and the control is enabled.
C20_Witness ==
    /\ last.op = "poll" /\ last.sid = nSubmits
    /\ last.sid \in terminated
    /\ initReqs = {} /\ timers = {}
    /\ ~btnDisabled

\* C16: in a Strategy A flow whose initiation returns the full metadata, the
\* display shows progress 50 after prepare, then progress 100 and the
\* returned file name after the handoff, and no poll request is ever issued.
C16_NativeHandoff ==
    /\ [](pollReqs = {} /\ nPolls = 0 /\ timers = {})
    /\ [][/\ (last'.op = "prepare" /\ last'.input.kind = "json"
              /\ last'.input.http = 200 /\ last'.input.error = "") =>
                (barHeight' = <<50, "%">> /\ progressText' = <<50, "%">>)
          /\ last'.op = "handoff" =>
                /\ barHeight = <<50, "%">>
                /\ barHeight' = <<100, "%">> /\ progressText' = <<100, "%">>
                /\ \E h \in handoffs \ handoffs' :
                      /\ h.file_name \in {"v.mp4", "w.mp4"}
                      /\ statusBox'.content[2] = h.file_name
                      /\ h.downloadId \in streamReqs']_vars
C16_Witness ==
    /\ last.op = "handoff" /\ last.input.file_name = "v.mp4"
    /\ barHeight = <<100, "%">>
    /\ statusBox.content[2] = "v.mp4"
    /\ streamReqs # {}
    /\ nPolls = 0
====
